---- MODULE Spec2Model ----
(***************************************************************************)
(* Model of assignment.py, the stock price tracker: the symbol validator,  *)
(* the two API client operations, the series normalizer and the request    *)
(* flow that runs when the user presses "Analyze Stock".                   *)
(*                                                                         *)
(* Conventions                                                             *)
(*   - a Python str that the code inspects character by character (the     *)
(*     symbol) is a sequence of one-character strings;                     *)
(*   - a Python value that may be None is a sequence of length 0 (None) or *)
(*     1 (the value);                                                      *)
(*   - a float is an integer number of thousandths of a dollar.            *)
(***************************************************************************)
EXTENDS Integers, Sequences, FiniteSets, TLC

VARIABLES pc, search_clicked, stock_symbol, is_valid, error_msg,
          price_resp, series_resp, requests,
          current_price, price_error, stock_data, data_error,
          df, process_error, shown

vars == <<pc, search_clicked, stock_symbol, is_valid, error_msg,
          price_resp, series_resp, requests,
          current_price, price_error, stock_data, data_error,
          df, process_error, shown>>

(***************************************************************************)
(* Bounds of the model.                                                    *)
(***************************************************************************)
MaxPrefix == 2
MaxPad == 11
MaxRecords == 2

(***************************************************************************)
(* Python values.                                                          *)
(***************************************************************************)
None == <<>>

Some(v) == <<v>>

\* bool(x) of an Optional[str]: None and "" are falsy.
TruthyStr(o) == o # None /\ o[1] # ""

\* bool(x) of an Optional[float]: None and 0.0 are falsy.
TruthyFloat(o) == o # None /\ o[1] # 0

\* bool(x) of an Optional[dict]: None and {} are falsy.
TruthyDict(o) == o # None /\ DOMAIN o[1] # {}

(***************************************************************************)
(* Characters.  AlnumChars are the characters c of the model's alphabet    *)
(* with c.isalnum(); str.isalnum is Unicode-aware, so the accented capital *)
(* letter counts.                                                          *)
(***************************************************************************)
UpperLetters == {"A", "B", "G", "K", "L", "M", "N", "O", "P", "R", "S", "T", "Y"}

LowerLetters == {"a", "l", "p"}

Digits == {"1", "2", "3", "7"}

AlnumChars == UpperLetters \cup LowerLetters \cup Digits \cup {"É"}

Whitespace == {" "}

\* str.upper(), character by character
upperChar(c) ==
    CASE c = "a" -> "A"
      [] c = "l" -> "L"
      [] c = "p" -> "P"
      [] OTHER   -> c

upper(s) == [i \in 1..Len(s) |-> upperChar(s[i])]

RECURSIVE lstrip(_)
lstrip(s) == IF s # <<>> /\ Head(s) \in Whitespace THEN lstrip(Tail(s)) ELSE s

RECURSIVE rstrip(_)
rstrip(s) ==
    IF s # <<>> /\ s[Len(s)] \in Whitespace
    THEN rstrip(SubSeq(s, 1, Len(s) - 1)) ELSE s

\* str.strip()
strip(s) == rstrip(lstrip(s))

\* str.replace(old, ""), for a one-character old
replace(s, old) == SelectSeq(s, LAMBDA c : c # old)

\* str.isalnum(): at least one character and all of them alphanumeric
isalnum(s) == Len(s) > 0 /\ \A i \in 1..Len(s) : s[i] \in AlnumChars

RECURSIVE str(_)
\* the symbol as one string, for f-strings
str(s) == IF s = <<>> THEN "" ELSE Head(s) \o str(Tail(s))

(***************************************************************************)
(* validate_stock_symbol                                                   *)
(***************************************************************************)
MaxSymbolLen == 10

EmptyMsg == "Please enter a stock symbol"

InvalidCharsMsg == "Stock symbol should only contain letters, numbers, and periods"

TooLongMsg == "Stock symbol should be 10 characters or less"

\* variant: the length test lets one character more through
validate_stock_symbol_OffByOne(symbol) ==
    IF symbol = <<>> THEN <<FALSE, EmptyMsg>>
    ELSE IF ~isalnum(replace(symbol, ".")) THEN <<FALSE, InvalidCharsMsg>>
    ELSE IF Len(symbol) > MaxSymbolLen + 1 THEN <<FALSE, TooLongMsg>>
    ELSE <<TRUE, "">>

\* variant: the periods are not removed before the character test
validate_stock_symbol_NoPeriods(symbol) ==
    IF symbol = <<>> THEN <<FALSE, EmptyMsg>>
    ELSE IF ~isalnum(symbol) THEN <<FALSE, InvalidCharsMsg>>
    ELSE IF Len(symbol) > MaxSymbolLen THEN <<FALSE, TooLongMsg>>
    ELSE <<TRUE, "">>

validate_stock_symbol(symbol) ==
    IF symbol = <<>> THEN <<FALSE, EmptyMsg>>
    ELSE IF ~isalnum(replace(symbol, ".")) THEN <<FALSE, InvalidCharsMsg>>
    ELSE IF Len(symbol) > MaxSymbolLen THEN <<FALSE, TooLongMsg>>
    ELSE <<TRUE, "">>

(***************************************************************************)
(* The provider.  A response is what requests.get produces: an HTTP        *)
(* response with a status code and a JSON body, or a raised exception.     *)
(* A JSON body is a record; a field that may be null holds an Optional.    *)
(***************************************************************************)
PriceUrl == "https://api.twelvedata.com/price"

SeriesUrl == "https://api.twelvedata.com/time_series"

HttpResponse(code, body) == [kind |-> "http", status_code |-> code, json |-> body, text |-> ""]

\* requests.exceptions.Timeout and another requests.exceptions.RequestException
Raised(exc, text) == [kind |-> exc, status_code |-> 0, json |-> [note |-> ""], text |-> text]

Exceptions ==
    { Raised("Timeout", "Read timed out. (read timeout=10)"),
      Raised("ConnectionError", "Connection refused") }

StatusCodes == {200, 404, 500}

ErrorBodies ==
    { [status |-> "error", message |-> Some("rate limit exceeded")],
      [status |-> "error", message |-> Some("")],
      [status |-> "error", message |-> None],
      [status |-> "error"] }

\* a body with neither an error status nor the expected field
OtherBody == [note |-> "nothing here"]

\* the strings the provider sends as a price
PriceStrings == {"150.25", "7.126", "0", "N/A"}

\* float(s), on the strings of the model; not in the domain: ValueError
floatDomain == {"150.25", "7.126", "0"}

float(s) ==
    CASE s = "150.25" -> 150250
      [] s = "7.126"  -> 7126
      [] s = "0"      -> 0

PriceBodies ==
    { [price |-> p] : p \in PriceStrings } \cup ErrorBodies \cup {OtherBody}

PriceResponses ==
    { HttpResponse(200, b) : b \in PriceBodies }
    \cup { HttpResponse(c, OtherBody) : c \in StatusCodes \ {200} }
    \cup Exceptions

\* dict.get(key, default) for the "message" key
get_message(data, default) ==
    IF "message" \in DOMAIN data THEN data.message ELSE Some(default)

HttpErrorMsg(code) == "API request failed with status code: " \o ToString(code)

(***************************************************************************)
(* get_current_price: the pair (price, error) returned for the provider's  *)
(* response resp.  Every exception, the ValueError of float() included, is *)
(* caught by the single except clause.                                     *)
(***************************************************************************)
get_current_price(resp) ==
    IF resp.kind # "http"
    THEN <<None, Some("Error fetching current price: " \o resp.text)>>
    ELSE IF resp.status_code = 200
    THEN LET data == resp.json IN
         IF "status" \in DOMAIN data /\ data.status = "error"
         THEN <<None, get_message(data, "Unknown API error")>>
         ELSE IF "price" \in DOMAIN data
         THEN IF data.price \in floatDomain
              THEN <<Some(float(data.price)), None>>
              ELSE <<None, Some("Error fetching current price: could not convert string to float: '"
                                \o data.price \o "'")>>
         ELSE <<None, Some("Price data not available")>>
    ELSE <<None, Some(HttpErrorMsg(resp.status_code))>>

(***************************************************************************)
(* The raw series.  A raw record carries six strings.                      *)
(***************************************************************************)
DateStrings == {"2024-01-02", "2024-01-03", "2024-01-04"}

\* pd.to_datetime on the date strings of the model, as a day number
to_datetime(s) ==
    CASE s = "2024-01-02" -> 2
      [] s = "2024-01-03" -> 3
      [] s = "2024-01-04" -> 4

\* Series.dt.strftime('%Y-%m-%d')
strftime(d) ==
    CASE d = 2 -> "2024-01-02"
      [] d = 3 -> "2024-01-03"
      [] d = 4 -> "2024-01-04"

\* pd.to_numeric on the numeric strings of the model: prices in thousandths
\* of a dollar, volumes in shares
numericDomain == {"10.00", "11.00", "12.50", "15.00", "9.75", "8.25", "14.10",
                  "1000", "2500"}

to_numeric(s) ==
    CASE s = "10.00" -> 10000
      [] s = "11.00" -> 11000
      [] s = "12.50" -> 12500
      [] s = "15.00" -> 15000
      [] s = "9.75"  -> 9750
      [] s = "8.25"  -> 8250
      [] s = "14.10" -> 14100
      [] s = "1000"  -> 1000
      [] s = "2500"  -> 2500

QuietDay(d) ==
    [datetime |-> d, open |-> "10.00", high |-> "12.50", low |-> "9.75",
     close |-> "11.00", volume |-> "1000"]

BusyDay(d) ==
    [datetime |-> d, open |-> "11.00", high |-> "15.00", low |-> "8.25",
     close |-> "14.10", volume |-> "2500"]

RawRecords ==
    { QuietDay(d) : d \in DateStrings } \cup { BusyDay(d) : d \in DateStrings }
    \cup { [QuietDay("2024-01-03") EXCEPT !.close = "abc"], QuietDay("yesterday") }

RawSeries == UNION { [1..n -> RawRecords] : n \in 0..MaxRecords }

SeriesBodies ==
    { [values |-> v] : v \in RawSeries } \cup ErrorBodies \cup {OtherBody}

SeriesResponses ==
    { HttpResponse(200, b) : b \in SeriesBodies }
    \cup { HttpResponse(c, OtherBody) : c \in StatusCodes \ {200} }
    \cup Exceptions

(***************************************************************************)
(* fetch_stock_data: the pair (data, error) returned for the provider's    *)
(* response resp.                                                          *)
(***************************************************************************)
TimeoutMsg == "Request timed out. Please try again."

fetch_stock_data(resp) ==
    IF resp.kind = "Timeout"
    THEN <<None, Some(TimeoutMsg)>>
    ELSE IF resp.kind # "http"
    THEN <<None, Some("Network error: " \o resp.text)>>
    ELSE IF resp.status_code = 200
    THEN LET data == resp.json IN
         IF "status" \in DOMAIN data /\ data.status = "error"
         THEN <<None, get_message(data, "Unknown API error")>>
         ELSE IF "values" \notin DOMAIN data
         THEN <<None, Some("No data available for this symbol")>>
         ELSE <<Some(data), None>>
    ELSE <<None, Some(HttpErrorMsg(resp.status_code))>>

(***************************************************************************)
(* process_stock_data                                                      *)
(***************************************************************************)
\* the first position (from 0) of a value of column col that is not in dom,
\* or -1: the conversion of a column raises at the first bad value
FirstBad(values, col, dom) ==
    LET bad == { i \in 1..Len(values) : values[i][col] \notin dom }
    IN IF bad = {} THEN -1
       ELSE (CHOOSE i \in bad : \A j \in bad : i <= j) - 1

ParseErrorMsg(values, col, dom) ==
    "Unable to parse string \"" \o values[FirstBad(values, col, dom) + 1][col]
    \o "\" at position " \o ToString(FirstBad(values, col, dom))

\* the columns in the order lines 257-262 convert them
NumericColumns == <<"open", "high", "low", "close", "volume">>

RECURSIVE FirstBadColumn(_, _)
\* the first numeric column, from the k-th on, whose conversion raises; 0: none
FirstBadColumn(values, k) ==
    IF k > Len(NumericColumns) THEN 0
    ELSE IF FirstBad(values, NumericColumns[k], numericDomain) >= 0 THEN k
    ELSE FirstBadColumn(values, k + 1)

\* the typed row of a raw record whose fields all parse
TypedRow(r) ==
    [datetime |-> to_datetime(r.datetime),
     open |-> to_numeric(r.open), high |-> to_numeric(r.high),
     low |-> to_numeric(r.low), close |-> to_numeric(r.close),
     volume |-> to_numeric(r.volume)]

\* DataFrame.sort_values on one row more: the row goes after the rows whose
\* key is not greater (the sort of a short frame is an insertion sort)
InsertRow(rows, r) ==
    LET k == Cardinality({ i \in 1..Len(rows) : rows[i].datetime <= r.datetime })
    IN SubSeq(rows, 1, k) \o <<r>> \o SubSeq(rows, k + 1, Len(rows))

RECURSIVE sort_values(_)
sort_values(rows) ==
    IF rows = <<>> THEN <<>>
    ELSE InsertRow(sort_values(SubSeq(rows, 1, Len(rows) - 1)), rows[Len(rows)])

process_stock_data(data) ==
    LET values == data.values IN
    IF values = <<>>
    THEN <<None, Some("Error processing data: 'datetime'")>>
    ELSE IF FirstBad(values, "datetime", DateStrings) >= 0
    THEN <<None, Some("Error processing data: "
                      \o ParseErrorMsg(values, "datetime", DateStrings))>>
    ELSE IF FirstBadColumn(values, 1) > 0
    THEN <<None, Some("Error processing data: "
                      \o ParseErrorMsg(values, NumericColumns[FirstBadColumn(values, 1)],
                                       numericDomain))>>
    ELSE <<Some(sort_values([i \in 1..Len(values) |-> TypedRow(values[i])])), None>>

(***************************************************************************)
(* What the page shows.  An item is one call of st.error, st.warning,      *)
(* st.metric, st.plotly_chart or st.dataframe (labels without their        *)
(* pictographs; the static markdown of the page is left out).              *)
(***************************************************************************)
Item(widget, label, value, data) ==
    [widget |-> widget, label |-> label, value |-> value, data |-> data]

Digit2(n) == ToString(n \div 10) \o ToString(n % 10)

Digit3(n) == ToString(n \div 100) \o Digit2(n % 100)

\* f"${x:.2f}" for x >= 0 in thousandths: rounded to the nearest cent (the
\* inputs of the model have no value halfway between two cents)
Fmt2(x) ==
    LET cents == (x + 5) \div 10
    IN "$" \o ToString(cents \div 100) \o "." \o Digit2(cents % 100)

\* f"{x:,}" for 0 <= x < 1000000
FmtThousands(x) ==
    IF x < 1000 THEN ToString(x)
    ELSE ToString(x \div 1000) \o "," \o Digit3(x % 1000)

\* lines 366-384: the frame of the raw-data table
display_df(rows) ==
    [i \in 1..Len(rows) |->
        [Date |-> strftime(rows[i].datetime),
         Open |-> Fmt2(rows[i].open), High |-> Fmt2(rows[i].high),
         Low |-> Fmt2(rows[i].low), Close |-> Fmt2(rows[i].close),
         Volume |-> FmtThousands(rows[i].volume)]]

\* df[col].max() and df[col].min()
ColumnMax(rows, col) ==
    CHOOSE m \in { rows[i][col] : i \in 1..Len(rows) } :
        \A i \in 1..Len(rows) : rows[i][col] <= m

ColumnMin(rows, col) ==
    CHOOSE m \in { rows[i][col] : i \in 1..Len(rows) } :
        \A i \in 1..Len(rows) : rows[i][col] >= m

PriceUnavailableMsg == "Current price not available"

\* lines 329-336
PriceItem(symbol, price, error) ==
    IF TruthyFloat(price) /\ ~TruthyStr(error)
    THEN Item("metric", str(symbol) \o " Current Price", Fmt2(price[1]), <<>>)
    ELSE Item("warning", "", PriceUnavailableMsg, <<>>)

\* lines 326-386: everything shown for a processed series
Presentation(symbol, price, error, rows) ==
    << PriceItem(symbol, price, error),
       Item("metric", "Latest Close", Fmt2(rows[Len(rows)].close), <<>>),
       Item("metric", "7-Day High", Fmt2(ColumnMax(rows, "high")), <<>>),
       Item("metric", "7-Day Low", Fmt2(ColumnMin(rows, "low")), <<>>),
       Item("plotly_chart", str(upper(symbol)) \o " - 7-Day Price Chart", "", rows),
       Item("dataframe", "View Raw Data", "", display_df(rows)) >>

(***************************************************************************)
(* The request flow.                                                       *)
(***************************************************************************)
\* what the user types in the main flow
TypedSymbols ==
    { <<>>, <<" ", " ">>,
      <<"a", "a", "p", "l">>, <<" ", "A", "A", "P", "L", " ">>,
      <<"B", "R", "K", ".", "B">>,
      <<"T", "O", "O", "L", "O", "N", "G", "S", "Y", "M", "B", "O", "L", "1", "2", "3">>,
      <<"A", "-", "B">>, <<".", ".">> }

Init ==
    /\ pc = "idle"
    /\ search_clicked = FALSE
    /\ stock_symbol = <<>>
    /\ is_valid = FALSE
    /\ error_msg = ""
    /\ price_resp = None
    /\ series_resp = None
    /\ requests = <<>>
    /\ current_price = None
    /\ price_error = None
    /\ stock_data = None
    /\ data_error = None
    /\ df = None
    /\ process_error = None
    /\ shown = <<>>

\* lines 281-289: the script runs with the text of the input and the state
\* of the button
Submit(raw, clicked) ==
    /\ pc = "idle"
    /\ stock_symbol' = upper(strip(raw))
    /\ search_clicked' = clicked
    /\ pc' = "validate"
    /\ UNCHANGED <<is_valid, error_msg, price_resp, series_resp, requests,
                   current_price, price_error, stock_data, data_error,
                   df, process_error, shown>>

\* variant: the error is shown but the flow goes on to the fetches
Validate_NoStop ==
    /\ pc = "validate"
    /\ IF search_clicked /\ stock_symbol # <<>>
       THEN LET r == validate_stock_symbol(stock_symbol) IN
            /\ is_valid' = r[1]
            /\ error_msg' = r[2]
            /\ shown' = IF ~r[1] THEN Append(shown, Item("error", "", r[2], <<>>))
                        ELSE shown
            /\ pc' = "get_price"
       ELSE /\ shown' = IF search_clicked
                        THEN Append(shown, Item("warning", "", EmptyMsg, <<>>))
                        ELSE shown
            /\ pc' = "done"
            /\ UNCHANGED <<is_valid, error_msg>>
    /\ UNCHANGED <<search_clicked, stock_symbol, price_resp, series_resp, requests,
                   current_price, price_error, stock_data, data_error,
                   df, process_error>>

\* lines 302-308 and 388-389
Validate ==
    /\ pc = "validate"
    /\ IF search_clicked /\ stock_symbol # <<>>
       THEN LET r == validate_stock_symbol(stock_symbol) IN
            /\ is_valid' = r[1]
            /\ error_msg' = r[2]
            /\ IF ~r[1]
               THEN /\ shown' = Append(shown, Item("error", "", r[2], <<>>))
                    /\ pc' = "done"
               ELSE /\ shown' = shown
                    /\ pc' = "get_price"
       ELSE /\ shown' = IF search_clicked
                        THEN Append(shown, Item("warning", "", EmptyMsg, <<>>))
                        ELSE shown
            /\ pc' = "done"
            /\ UNCHANGED <<is_valid, error_msg>>
    /\ UNCHANGED <<search_clicked, stock_symbol, price_resp, series_resp, requests,
                   current_price, price_error, stock_data, data_error,
                   df, process_error>>

\* the GET of requests.get(url, params=...)
Get(url, symbol) == [url |-> url, symbol |-> str(upper(symbol))]

\* variant: a failed price fetch is issued once more
GetPrice_Retry(resp) ==
    /\ pc = "get_price"
    /\ requests' = Append(requests, Get(PriceUrl, stock_symbol))
    /\ price_resp' = Some(resp)
    /\ current_price' = get_current_price(resp)[1]
    /\ price_error' = get_current_price(resp)[2]
    /\ pc' = IF get_current_price(resp)[1] = None /\ requests = <<>>
             THEN "get_price" ELSE "fetch_series"
    /\ UNCHANGED <<search_clicked, stock_symbol, is_valid, error_msg, series_resp,
                   stock_data, data_error, df, process_error, shown>>

\* line 312, with the provider's answer resp
GetPrice(resp) ==
    /\ pc = "get_price"
    /\ requests' = Append(requests, Get(PriceUrl, stock_symbol))
    /\ price_resp' = Some(resp)
    /\ current_price' = get_current_price(resp)[1]
    /\ price_error' = get_current_price(resp)[2]
    /\ pc' = "fetch_series"
    /\ UNCHANGED <<search_clicked, stock_symbol, is_valid, error_msg, series_resp,
                   stock_data, data_error, df, process_error, shown>>

\* line 315, with the provider's answer resp
FetchSeries(resp) ==
    /\ pc = "fetch_series"
    /\ requests' = Append(requests, Get(SeriesUrl, stock_symbol))
    /\ series_resp' = Some(resp)
    /\ stock_data' = fetch_stock_data(resp)[1]
    /\ data_error' = fetch_stock_data(resp)[2]
    /\ pc' = "report"
    /\ UNCHANGED <<search_clicked, stock_symbol, is_valid, error_msg, price_resp,
                   current_price, price_error, df, process_error, shown>>

\* variant: a price error ends the request like a series error does
Report_PriceHard ==
    /\ pc = "report"
    /\ IF TruthyStr(price_error)
       THEN /\ shown' = Append(shown, Item("error", "", price_error[1], <<>>))
            /\ pc' = "done"
            /\ UNCHANGED <<df, process_error>>
       ELSE IF TruthyStr(data_error)
       THEN /\ shown' = Append(shown, Item("error", "",
                                "Error fetching stock data: " \o data_error[1], <<>>))
            /\ pc' = "done"
            /\ UNCHANGED <<df, process_error>>
       ELSE IF TruthyDict(stock_data)
       THEN LET r == process_stock_data(stock_data[1]) IN
            /\ df' = r[1]
            /\ process_error' = r[2]
            /\ IF TruthyStr(r[2])
               THEN /\ shown' = Append(shown, Item("error", "", r[2][1], <<>>))
                    /\ pc' = "done"
               ELSE /\ shown' = shown
                    /\ pc' = "present"
       ELSE /\ pc' = "done"
            /\ UNCHANGED <<df, process_error, shown>>
    /\ UNCHANGED <<search_clicked, stock_symbol, is_valid, error_msg,
                   price_resp, series_resp, requests,
                   current_price, price_error, stock_data, data_error>>

\* lines 317-324
Report ==
    /\ pc = "report"
    /\ IF TruthyStr(data_error)
       THEN /\ shown' = Append(shown, Item("error", "",
                                "Error fetching stock data: " \o data_error[1], <<>>))
            /\ pc' = "done"
            /\ UNCHANGED <<df, process_error>>
       ELSE IF TruthyDict(stock_data)
       THEN LET r == process_stock_data(stock_data[1]) IN
            /\ df' = r[1]
            /\ process_error' = r[2]
            /\ IF TruthyStr(r[2])
               THEN /\ shown' = Append(shown, Item("error", "", r[2][1], <<>>))
                    /\ pc' = "done"
               ELSE /\ shown' = shown
                    /\ pc' = "present"
       ELSE /\ pc' = "done"
            /\ UNCHANGED <<df, process_error, shown>>
    /\ UNCHANGED <<search_clicked, stock_symbol, is_valid, error_msg,
                   price_resp, series_resp, requests,
                   current_price, price_error, stock_data, data_error>>

\* lines 326-386
Present ==
    /\ pc = "present"
    /\ shown' = shown \o Presentation(stock_symbol, current_price, price_error, df[1])
    /\ pc' = "done"
    /\ UNCHANGED <<search_clicked, stock_symbol, is_valid, error_msg,
                   price_resp, series_resp, requests,
                   current_price, price_error, stock_data, data_error,
                   df, process_error>>

\* the next run of the script starts from nothing: no value outlives a run
Rerun ==
    /\ pc = "done"
    /\ pc' = "idle"
    /\ search_clicked' = FALSE
    /\ stock_symbol' = <<>>
    /\ is_valid' = FALSE
    /\ error_msg' = ""
    /\ price_resp' = None
    /\ series_resp' = None
    /\ requests' = <<>>
    /\ current_price' = None
    /\ price_error' = None
    /\ stock_data' = None
    /\ data_error' = None
    /\ df' = None
    /\ process_error' = None
    /\ shown' = <<>>

Next ==
    \/ \E raw \in TypedSymbols, clicked \in BOOLEAN : Submit(raw, clicked)
    \/ Validate
    \/ \E resp \in PriceResponses : GetPrice(resp)
    \/ \E resp \in SeriesResponses : FetchSeries(resp)
    \/ Report
    \/ Present
    \/ Rerun

Spec == Init /\ [][Next]_vars

(***************************************************************************)
(* The validator on its own: validate_stock_symbol applied to every symbol *)
(* the input box can hand over, a short prefix followed by a run of one    *)
(* character, stripped and upper-cased as on line 286.                     *)
(***************************************************************************)
ValidatorChars == {"a", "A", "7", "É", ".", "-", " "}

Prefixes == UNION { [1..n -> ValidatorChars] : n \in 0..MaxPrefix }

Run(c, n) == [i \in 1..n |-> c]

RawInputs == { p \o Run(c, n) : p \in Prefixes, c \in ValidatorChars, n \in 0..MaxPad }

CallValidate(symbol) ==
    /\ pc = "idle"
    /\ stock_symbol' = symbol
    /\ is_valid' = validate_stock_symbol(symbol)[1]
    /\ error_msg' = validate_stock_symbol(symbol)[2]
    /\ pc' = "done"
    /\ UNCHANGED <<search_clicked, price_resp, series_resp, requests,
                   current_price, price_error, stock_data, data_error,
                   df, process_error, shown>>

NextValidate ==
    \/ \E raw \in RawInputs : CallValidate(upper(strip(raw)))
    \/ Rerun

SpecValidate == Init /\ [][NextValidate]_vars

(***************************************************************************)
(* Vocabulary of the properties.                                           *)
(***************************************************************************)
\* a request is over
Done == pc = "done"

\* the widgets shown, in order
Widgets == [i \in 1..Len(shown) |-> shown[i].widget]

\* the number of GETs issued to url in this request
Gets(url) == Cardinality({ i \in 1..Len(requests) : requests[i].url = url })

\* the summary metrics, the chart and the table are on the page
SeriesPresented ==
    /\ df # None
    /\ Len(shown) = 6
    /\ SubSeq(Widgets, 2, 6) = <<"metric", "metric", "metric", "plotly_chart", "dataframe">>
    /\ shown[5].data = df[1]
    /\ Len(shown[6].data) = Len(df[1])

\* the quote is on the page
QuotePresented ==
    \E i \in 1..Len(shown) :
        /\ shown[i].widget = "metric"
        /\ shown[i].label = str(stock_symbol) \o " Current Price"
        /\ shown[i].value = Fmt2(current_price[1])

\* the price is shown as unavailable
PriceShownUnavailable ==
    \E i \in 1..Len(shown) :
        shown[i].widget = "warning" /\ shown[i].value = PriceUnavailableMsg

\* the series fetch succeeded and process_stock_data succeeds on its result
SeriesSucceeded ==
    /\ series_resp # None
    /\ stock_data # None
    /\ process_stock_data(stock_data[1])[2] = None

\* C1: a request whose symbol fails validation issues no HTTP request at any
\* point and ends showing exactly the validation error message.
C1_InvalidSymbolNoHttp ==
    (pc # "idle" /\ search_clicked /\ ~validate_stock_symbol(stock_symbol)[1])
        => /\ requests = <<>>
           /\ price_resp = None /\ series_resp = None
           /\ pc \in {"validate", "done"}
           /\ Done => /\ Len(shown) = 1
                      /\ shown[1].widget \in {"error", "warning"}
                      /\ shown[1].value = validate_stock_symbol(stock_symbol)[2]

C1_Witness ==
    /\ Done /\ search_clicked
    /\ Len(stock_symbol) > MaxSymbolLen
    /\ shown = <<Item("error", "", TooLongMsg, <<>>)>>
    /\ requests = <<>>

\* C2: when the price fetch returns an error of any kind and the series
\* fetch and its processing succeed, the request ends with the metrics, the
\* chart and the table shown and the price shown as unavailable.
C2_PriceErrorIsSoft ==
    (Done /\ is_valid /\ price_resp # None /\ current_price = None /\ SeriesSucceeded)
        => SeriesPresented /\ PriceShownUnavailable

C2_Witness ==
    /\ Done /\ is_valid
    /\ price_resp = Some(HttpResponse(200, [status |-> "error",
                                            message |-> Some("rate limit exceeded")]))
    /\ price_error = Some("rate limit exceeded")
    /\ SeriesSucceeded /\ SeriesPresented /\ PriceShownUnavailable

\* C3: the outcomes of the two fetches are surfaced independently: a
\* successful series is presented when the price fetch fails, and a
\* successful quote is presented when the series fetch or its processing
\* fails.
C3_OutcomesIndependent ==
    (Done /\ is_valid /\ series_resp # None)
        => /\ (current_price = None /\ SeriesSucceeded) => SeriesPresented
           /\ (TruthyFloat(current_price) /\ ~SeriesSucceeded) => QuotePresented

\* C4: every error of a request has a message on the page by the time the
\* request ends: the validation error, the price error, the series error
\* (also one whose provider message is empty or null) and the processing
\* error.
C4_NoErrorSwallowed ==
    (Done /\ search_clicked)
        => /\ ~validate_stock_symbol(stock_symbol)[1]
                => \E i \in 1..Len(shown) :
                       shown[i].value = validate_stock_symbol(stock_symbol)[2]
           /\ (price_resp # None /\ current_price = None)
                => \/ PriceShownUnavailable
                   \/ \E i \in 1..Len(shown) :
                          shown[i].widget = "error" /\ Some(shown[i].value) = price_error
           /\ (series_resp # None /\ stock_data = None)
                => \E i \in 1..Len(shown) : shown[i].widget = "error"
           /\ process_error # None
                => \E i \in 1..Len(shown) :
                       shown[i].widget = "error" /\ shown[i].value = process_error[1]

\* the failure category the classification of 4.2 gives a response that
\* lacks the field named field
ExpectedCategory(resp, field) ==
    IF resp.kind = "Timeout" THEN "Timeout"
    ELSE IF resp.kind # "http" THEN "NetworkError"
    ELSE IF resp.status_code # 200 THEN "HttpError"
    ELSE IF "status" \in DOMAIN resp.json /\ resp.json.status = "error" THEN "ProviderError"
    ELSE IF field \notin DOMAIN resp.json THEN "Missing"
    ELSE "Other"

\* the failure category a returned error message stands for; a message that
\* is a prefix followed by the cause counts as a network error
CategoryOf(error) ==
    IF error = None THEN "ProviderError"
    ELSE IF error[1] = TimeoutMsg THEN "Timeout"
    ELSE IF error[1] \in { "Network error: " \o e.text : e \in Exceptions }
                         \cup { "Error fetching current price: " \o e.text : e \in Exceptions }
    THEN "NetworkError"
    ELSE IF error[1] \in { HttpErrorMsg(c) : c \in StatusCodes } THEN "HttpError"
    ELSE IF error[1] \in {"Price data not available", "No data available for this symbol"}
    THEN "Missing"
    ELSE "ProviderError"

\* C5: both fetch operations classify a failed outcome into the same distinct
\* categories (provider error, missing field, HTTP error, timeout, network
\* error); in particular each reports a timeout as a category of its own.
C5_SameClassification ==
    /\ (price_resp # None /\ ExpectedCategory(price_resp[1], "price") # "Other")
            => CategoryOf(price_error) = ExpectedCategory(price_resp[1], "price")
    /\ (series_resp # None /\ ExpectedCategory(series_resp[1], "values") # "Other")
            => CategoryOf(data_error) = ExpectedCategory(series_resp[1], "values")

\* C6: in one request at most one GET goes to the price endpoint and at most
\* one to the time-series endpoint, whatever the outcomes.
C6_NoRetry == Gets(PriceUrl) <= 1 /\ Gets(SeriesUrl) <= 1

C6_Witness ==
    /\ Done
    /\ price_resp # None /\ price_resp[1].kind = "Timeout"
    /\ series_resp # None /\ series_resp[1].status_code = 500
    /\ Gets(PriceUrl) = 1 /\ Gets(SeriesUrl) = 1

\* every field of every record of a raw series parses
AllParse(values) ==
    \A i \in 1..Len(values) :
        /\ values[i].datetime \in DateStrings
        /\ \A k \in 1..Len(NumericColumns) : values[i][NumericColumns[k]] \in numericDomain

\* rows is a permutation of the typed records of values
IsPermutation(rows, values) ==
    /\ Len(rows) = Len(values)
    /\ \E f \in [1..Len(rows) -> 1..Len(rows)] :
        /\ \A i, j \in 1..Len(rows) : f[i] = f[j] => i = j
        /\ \A i \in 1..Len(rows) : rows[i] = TypedRow(values[f[i]])

IsAscending(rows) ==
    \A i \in 1..Len(rows) - 1 : rows[i].datetime <= rows[i + 1].datetime

\* C7: for every raw series of N records whose fields all parse,
\* process_stock_data succeeds and returns exactly those N records in
\* ascending order of date.
C7_NormalizeSortsAll ==
    (pc \in {"present", "done"} /\ stock_data # None /\ AllParse(stock_data[1].values))
        => /\ df # None /\ process_error = None
           /\ IsPermutation(df[1], stock_data[1].values)
           /\ IsAscending(df[1])

\* the greatest and the least of a non-empty set of numbers
Greatest(S) == CHOOSE m \in S : \A x \in S : x <= m

Least(S) == CHOOSE m \in S : \A x \in S : x >= m

\* C8: in a presented request the metrics are the maximum of the highs, the
\* minimum of the lows and the close of a record with the greatest date, and
\* the quote shown is the price of the provider whenever the price fetch
\* succeeded.
C8_MetricsAndQuote ==
    (Done /\ df # None /\ Len(shown) = 6)
        => LET values == stock_data[1].values
               N == Len(values)
               last == Greatest({ to_datetime(values[i].datetime) : i \in 1..N })
           IN /\ shown[3].label = "7-Day High"
              /\ shown[3].value = Fmt2(Greatest({ to_numeric(values[i].high) : i \in 1..N }))
              /\ shown[4].label = "7-Day Low"
              /\ shown[4].value = Fmt2(Least({ to_numeric(values[i].low) : i \in 1..N }))
              /\ shown[2].label = "Latest Close"
              /\ \E i \in 1..N : /\ to_datetime(values[i].datetime) = last
                                 /\ shown[2].value = Fmt2(to_numeric(values[i].close))
              /\ current_price # None => /\ QuotePresented
                                         /\ shown[1].widget = "metric"

\* the characters of [A-Za-z0-9.]
AsciiAllowed == UpperLetters \cup LowerLetters \cup Digits \cup {"."}

\* the characters that are a period or alphanumeric for str.isalnum
Allowed == AlnumChars \cup {"."}

OnlyChars(s, C) == \A i \in 1..Len(s) : s[i] \in C

HasNonPeriod(s) == \E i \in 1..Len(s) : s[i] # "."

\* C9 as stated: every symbol longer than 10 characters fails with the
\* too-long message, whatever its characters.
C9_Original ==
    (Done /\ Len(stock_symbol) > MaxSymbolLen)
        => ~is_valid /\ error_msg = TooLongMsg

\* C9: a symbol longer than 10 characters fails; with the too-long message
\* when all its characters are periods or alphanumeric and one of them is not
\* a period, and with the invalid-characters message otherwise.
C9_TooLong ==
    (Done /\ Len(stock_symbol) > MaxSymbolLen)
        => /\ ~is_valid
           /\ error_msg = IF OnlyChars(stock_symbol, Allowed) /\ HasNonPeriod(stock_symbol)
                          THEN TooLongMsg ELSE InvalidCharsMsg

C9_Witness ==
    /\ Done /\ Len(stock_symbol) = MaxSymbolLen + 1
    /\ \E i \in 1..Len(stock_symbol) : stock_symbol[i] = "."
    /\ ~is_valid /\ error_msg = TooLongMsg

\* C10 as stated: validation succeeds exactly for the non-empty symbols of at
\* most 10 characters, all in [A-Za-z0-9.], and a symbol with a character
\* outside that set fails with the invalid-characters message.
C10_Original ==
    Done => /\ is_valid <=> /\ stock_symbol # <<>>
                            /\ Len(stock_symbol) <= MaxSymbolLen
                            /\ OnlyChars(stock_symbol, AsciiAllowed)
            /\ ~OnlyChars(stock_symbol, AsciiAllowed) => error_msg = InvalidCharsMsg

\* C10: validation succeeds exactly for the symbols of at most 10 characters
\* that are all periods or alphanumeric for str.isalnum and have a character
\* that is not a period; a non-empty symbol with another character, or made
\* of periods only, fails with the invalid-characters message.
C10_ValidIff ==
    Done => /\ is_valid <=> /\ Len(stock_symbol) <= MaxSymbolLen
                            /\ OnlyChars(stock_symbol, Allowed)
                            /\ HasNonPeriod(stock_symbol)
            /\ (stock_symbol # <<>>
                /\ ~(OnlyChars(stock_symbol, Allowed) /\ HasNonPeriod(stock_symbol)))
                    => ~is_valid /\ error_msg = InvalidCharsMsg

C10_Witness ==
    /\ Done /\ is_valid /\ error_msg = ""
    /\ Len(stock_symbol) = MaxSymbolLen
    /\ \E i \in 1..Len(stock_symbol) : stock_symbol[i] = "."
    /\ \E i \in 1..Len(stock_symbol) : stock_symbol[i] = "É"

====
